---- MODULE Spec2Model ----
(***************************************************************************)
(* A model of bwtree-rs: the index driver (BwTree), its mapping table, the *)
(* node variants and the lock-free linked list that backs a delta chain.   *)
(*                                                                         *)
(* Every atomic access of the source (a load, a store or a                 *)
(* compare-exchange of an AtomicPtr / AtomicUsize) is one step of one      *)
(* thread; thread-local work between two atomic accesses is folded into    *)
(* the step that follows or precedes it.  Atomics are modelled as          *)
(* sequentially consistent.                                                *)
(***************************************************************************)
EXTENDS Integers, Sequences, FiniteSets, TLC

\* ------------------------------------------------------------------------
\* Bounds of the model
\* ------------------------------------------------------------------------
NumThreads == 2
NumKeys == 3
MaxOps == 3
SeqMaxOps == 5
MaxSpurious == 1      \* spurious failures of compare_exchange_weak in one push_front call

\* ------------------------------------------------------------------------
\* Program constants
\* ------------------------------------------------------------------------
FIRST_LEAF_NODE_ID == 2
MAPPING_TABLE_SIZE == 1048576
MINIMUM == 0
ROOT_ID == 1
FIRST_UNUSED_NODE_ID == 1
Null == 0

Threads == 1..NumThreads
AllKeys == 1..NumKeys

\* Option<&V>
None == <<>>
Some(v) == <<v>>

VARIABLES
    mainpc,               \* "new" before BwTree::new() has run, "run" after
    entries,              \* MappingTable.entries: id -> pointer, null slots left out
    next_unused_node_id,  \* BwTree.next_unused_node_id
    heap,                 \* Node<K,V> objects, by pointer
    boxed,                \* pointers of Node objects allocated by Box::leak and not freed
    lnodes,               \* linked_list::Node<T> objects, by pointer
    casOrder,             \* history: <<list, node>> of every successful head CAS, in order
    active,               \* the threads that were spawned
    budget,               \* operations the threads may still start
    pc,                   \* position of each thread
    op,                   \* the public operation a thread is in (or was last in)
    key, value,           \* arguments of that operation
    prev,                 \* <<k, v>> of the insert the thread completed just before this operation
    root,                 \* `root` of BwTree::insert / BwTree::get
    cand,                 \* the Delta built in the Inner arm of BwTree::insert
    old,                  \* `old` of MappingTable::insert
    mt_ret,               \* what MappingTable::insert returned: <<>> (not called), <<TRUE>> or <<FALSE>>
    new_node,             \* `new_node` of LinkedList::push_front
    head,                 \* `head` of LinkedList::push_front
    it,                   \* Iter.next
    ret,                  \* result of the last completed operation
    log,                  \* the <<k, v>> of the inserts a thread has completed, in order
    \* history of the call in progress, forgotten when it returns:
    snap,                 \* the nodes of the list when iter() loaded its head
    yielded,              \* the nodes Iter::next has returned, in order
    spurious,             \* head CASes of the push_front call that failed spuriously
    fails,                \* head CASes of the push_front call that found another head
    len0                  \* length of the list when the push_front call began

\* the spawned threads insert disjoint sets of keys: the keys are dealt out
\* among them
KeysOf(t) == {k \in AllKeys : ((k - 1) % Cardinality(active)) + 1 = t}

\* the value of a thread's next insert.  The code never inspects a value
\* (V: Clone + Debug), so each insert of a thread carries a value of its own.
NextValue(t) == Len(log[t]) + 1

\* Addresses handed out by the allocator.  Any fresh address will do, the
\* code only compares addresses for equality: the list node of a thread's
\* n-th insert, and the Delta the Inner arm of that insert builds.
ListNodePtr(t) == Len(log[t]) * NumThreads + t
DeltaPtr(t) == FIRST_LEAF_NODE_ID + Len(log[t]) * NumThreads + t

\* the store with a new object at address p
Alloc(store, p, obj) == [q \in (DOMAIN store) \cup {p} |-> IF q = p THEN obj ELSE store[q]]

shared == <<mainpc, entries, next_unused_node_id, heap, boxed, lnodes, casOrder>>
locals == <<active, budget, pc, op, key, value, prev, root, cand, old, mt_ret, new_node, head, it, ret, log,
            snap, yielded, spurious, fails, len0>>
vars == <<shared, locals>>

\* ------------------------------------------------------------------------
\* linked_list.rs
\* ------------------------------------------------------------------------

\* Node { value, next: AtomicPtr::new(null) }
NewListNode(v) == [value |-> v, next |-> Null]

\* LinkedList::new
LinkedListNew == Null

\* (*new_node).next.store(head)
StoreNext_forget(ln, n, h) == ln
StoreNext(ln, n, h) == [ln EXCEPT ![n].next = h]

\* AtomicPtr::compare_exchange on a cell holding cur
compare_exchange_absent(cur, expected, new) ==
    [ok |-> cur = Null, val |-> IF cur = Null THEN new ELSE cur]
compare_exchange_blind(cur, expected, new) == [ok |-> TRUE, val |-> new]
compare_exchange(cur, expected, new) ==
    IF cur = expected THEN [ok |-> TRUE, val |-> new] ELSE [ok |-> FALSE, val |-> cur]

\* push_front: `let head = self.head.load(Acquire)`, at the top of every turn
\* of the loop; cur is the head of the list, stale what the last turn loaded
HeadLoad_once(cur, stale) == IF stale = Null THEN cur ELSE stale
HeadLoad(cur, stale) == cur

\* LinkedList::iter: the iterator starts at the head that was loaded
LinkedListIter_skip(h) == IF h = Null THEN Null ELSE lnodes[h].next
LinkedListIter(h) == h

\* the nodes reachable from h, head first
RECURSIVE Chain(_)
Chain(h) == IF h = Null THEN <<>> ELSE <<h>> \o Chain(lnodes[h].next)

\* ------------------------------------------------------------------------
\* lib.rs: node variants
\* ------------------------------------------------------------------------
InnerNodeNew == [type |-> "Inner", keys |-> <<>>, children |-> <<>>]

InnerNodeInsert_nochild(n, k, id) == [n EXCEPT !.keys = Append(@, k)]
InnerNodeInsert(n, k, id) ==
    [n EXCEPT !.keys = Append(@, k), !.children = Append(@, id)]

LeafNodeNew == [type |-> "Leaf", count |-> 0, keys |-> <<>>, values |-> <<>>]

DeltaNodeNew == [type |-> "Delta", head |-> LinkedListNew]

\* DeltaNode::insert on a Delta no other thread can reach: push_front of the
\* new list node n, whose head CAS has nobody to lose against
DeltaNodeInsert_skip(d, n) == d
DeltaNodeInsert(d, n) ==
    [d EXCEPT !.head = compare_exchange(d.head, d.head, n).val]

\* LeafNode::get
LeafNodeGet(n, k) ==
    IF \E i \in 1..n.count : n.keys[i] = k
    THEN LET i == CHOOSE j \in 1..n.count :
                     n.keys[j] = k /\ \A m \in 1..(j - 1) : n.keys[m] # k
         IN Some(n.values[i])
    ELSE None

\* DeltaNode::get, run without interruption from the chain head h
RECURSIVE DeltaNodeGet(_, _)
DeltaNodeGet(h, k) ==
    IF h = Null THEN None
    ELSE IF lnodes[h].value[1] = k THEN Some(lnodes[h].value[2])
    ELSE DeltaNodeGet(lnodes[h].next, k)

\* ------------------------------------------------------------------------
\* lib.rs: mapping table
\* ------------------------------------------------------------------------
MappingTableNew == <<>>

EntryAt(id) == IF id \in DOMAIN entries THEN entries[id] ELSE Null

\* the two assertions of MappingTable::get
MappingTableGetOk(id) == id < MAPPING_TABLE_SIZE /\ EntryAt(id) # Null

\* the store of a compare_exchange on slot id: p is the value the slot holds
\* after it
StoreEntry_take(ent, id, p) ==
    [i \in (DOMAIN ent) \cup {id} |->
        IF i # id THEN ent[i]
        ELSE IF id \in DOMAIN ent /\ ent[id] # Null THEN Null ELSE p]
StoreEntry(ent, id, p) ==
    [i \in (DOMAIN ent) \cup {id} |-> IF i = id THEN p ELSE ent[i]]

\* MappingTable::insert with no other thread running: load `old`, then the CAS
MappingTableInsertSeq(ent, id, p) ==
    LET cur == IF id \in DOMAIN ent THEN ent[id] ELSE Null
        c == compare_exchange(cur, cur, p)
    IN StoreEntry(ent, id, c.val)

\* Err arm of MappingTable::insert: Box::from(p) boxes the pointer value p
\* itself (From<T> for Box<T>), so the drop releases that temporary box and
\* no Node allocation
DropBoxFrom_free(b, p) == b \ {p}
DropBoxFrom(b, p) == b

\* BwTree::insert ends in `true` whatever MappingTable::insert returned
BwTreeInsertResult_propagate(cas_ok) == cas_ok
BwTreeInsertResult(cas_ok) == TRUE

\* BwTree::get would panic in the current state: an assertion of
\* MappingTable::get, or the todo!() of Node::get
GetPanics ==
    \/ ~MappingTableGetOk(ROOT_ID)
    \/ heap[EntryAt(ROOT_ID)].type = "Inner"

\* BwTree::get, run without interruption in the current state (where it
\* does not panic)
GetNow(k) ==
    LET n == heap[EntryAt(ROOT_ID)] IN
    CASE n.type = "Delta" -> DeltaNodeGet(n.head, k)
      [] n.type = "Leaf"  -> LeafNodeGet(n, k)

\* ------------------------------------------------------------------------
\* Initial state: the BwTree struct literal of BwTree::new, no thread started
\* ------------------------------------------------------------------------
InitShared ==
    /\ mainpc = "new"
    /\ entries = MappingTableNew
    /\ next_unused_node_id = FIRST_UNUSED_NODE_ID
    /\ heap = <<>>
    /\ boxed = {}
    /\ lnodes = <<>>
    /\ casOrder = <<>>

InitLocals ==
    /\ pc = [t \in Threads |-> "idle"]
    /\ op = [t \in Threads |-> "none"]
    /\ key = [t \in Threads |-> 0]
    /\ value = [t \in Threads |-> 0]
    /\ prev = [t \in Threads |-> <<>>]
    /\ root = [t \in Threads |-> Null]
    /\ cand = [t \in Threads |-> Null]
    /\ old = [t \in Threads |-> Null]
    /\ mt_ret = [t \in Threads |-> <<>>]
    /\ new_node = [t \in Threads |-> Null]
    /\ head = [t \in Threads |-> Null]
    /\ it = [t \in Threads |-> Null]
    /\ ret = [t \in Threads |-> "none"]
    /\ log = [t \in Threads |-> <<>>]
    /\ snap = [t \in Threads |-> <<>>]
    /\ yielded = [t \in Threads |-> <<>>]
    /\ spurious = [t \in Threads |-> 0]
    /\ fails = [t \in Threads |-> 0]
    /\ len0 = [t \in Threads |-> 0]

\* the threads run MaxOps operations between them, concurrently
Init ==
    /\ InitShared
    /\ InitLocals
    /\ active = Threads
    /\ budget = MaxOps

\* one thread runs SeqMaxOps operations
InitSeq ==
    /\ InitShared
    /\ InitLocals
    /\ active = {1}
    /\ budget = SeqMaxOps

\* ------------------------------------------------------------------------
\* BwTree::new (after the struct literal); runs before any thread starts
\* ------------------------------------------------------------------------
New ==
    /\ mainpc = "new"
    /\ LET root_id == next_unused_node_id            \* fetch_add returns the old value
           first_leaf_id == next_unused_node_id + 1
           left_most_leaf == LeafNodeNew
           rootn == InnerNodeInsert(InnerNodeNew, MINIMUM, first_leaf_id)
           p1 == root_id
           p2 == first_leaf_id
           e1 == MappingTableInsertSeq(entries, root_id, p1)
       IN /\ root_id = ROOT_ID                        \* assert_eq!(1, root_id)
          /\ first_leaf_id = FIRST_LEAF_NODE_ID       \* assert_eq!(FIRST_LEAF_NODE_ID, ..)
          /\ root_id < MAPPING_TABLE_SIZE
          /\ first_leaf_id < MAPPING_TABLE_SIZE
          /\ next_unused_node_id' = next_unused_node_id + 2
          /\ heap' = Alloc(Alloc(heap, p1, rootn), p2, left_most_leaf)
          /\ boxed' = boxed \cup {p1, p2}
          /\ entries' = MappingTableInsertSeq(e1, first_leaf_id, p2)
    /\ mainpc' = "run"
    /\ UNCHANGED <<lnodes, casOrder, locals>>

\* ------------------------------------------------------------------------
\* Threads: the public operations, one atomic access per step
\* ------------------------------------------------------------------------

\* what a call of a public operation resets in the caller
Enter(t, o, k) ==
    /\ op' = [op EXCEPT ![t] = o]
    /\ key' = [key EXCEPT ![t] = k]
    /\ prev' = [prev EXCEPT ![t] =
                  IF o = "get" /\ op[t] = "insert" /\ pc[t] = "idle"
                  THEN <<key[t], value[t]>> ELSE <<>>]
    /\ old' = [old EXCEPT ![t] = Null]
    /\ mt_ret' = [mt_ret EXCEPT ![t] = <<>>]
    /\ head' = [head EXCEPT ![t] = Null]
    /\ it' = [it EXCEPT ![t] = Null]
    /\ snap' = [snap EXCEPT ![t] = <<>>]
    /\ yielded' = [yielded EXCEPT ![t] = <<>>]
    /\ spurious' = [spurious EXCEPT ![t] = 0]
    /\ fails' = [fails EXCEPT ![t] = 0]
    /\ budget' = budget - 1

\* A thread calls tree.insert(k, v) with a key of its own range.
\* BwTree::insert: `self.mapping_table.get(self.root_id)` and the match.
\* The Inner arm builds its Delta (DeltaNode::new, delta.insert: a push_front
\* on a list no other thread can reach) before it calls MappingTable::insert;
\* the Delta arm enters push_front, which allocates its node.
Insert(t) ==
    /\ mainpc = "run"
    /\ t \in active
    /\ pc[t] = "idle"
    /\ budget > 0
    /\ \E k \in KeysOf(t), v \in {NextValue(t)} :
        /\ Enter(t, "insert", k)
        /\ value' = [value EXCEPT ![t] = v]
        /\ IF ~MappingTableGetOk(ROOT_ID)
           THEN /\ pc' = [pc EXCEPT ![t] = "assert_failed"]
                /\ root' = [root EXCEPT ![t] = Null]
                /\ cand' = [cand EXCEPT ![t] = Null]
                /\ new_node' = [new_node EXCEPT ![t] = Null]
                /\ len0' = [len0 EXCEPT ![t] = 0]
                /\ UNCHANGED <<heap, lnodes, casOrder>>
           ELSE LET r == EntryAt(ROOT_ID) IN
                /\ root' = [root EXCEPT ![t] = r]
                /\ len0' = [len0 EXCEPT ![t] =
                              IF heap[r].type = "Delta" THEN Len(Chain(heap[r].head)) ELSE 0]
                /\ CASE heap[r].type = "Inner" ->
                          LET n == ListNodePtr(t)
                              d == DeltaPtr(t)
                          IN /\ lnodes' = StoreNext(Alloc(lnodes, n, NewListNode(<<k, v>>)),
                                                    n, DeltaNodeNew.head)
                             /\ heap' = Alloc(heap, d, DeltaNodeInsert(DeltaNodeNew, n))
                             /\ casOrder' = Append(casOrder, <<d, n>>)
                             /\ cand' = [cand EXCEPT ![t] = d]
                             /\ new_node' = [new_node EXCEPT ![t] = n]
                             /\ pc' = [pc EXCEPT ![t] = "mt_load"]
                     [] heap[r].type = "Delta" ->
                          /\ lnodes' = Alloc(lnodes, ListNodePtr(t), NewListNode(<<k, v>>))
                          /\ new_node' = [new_node EXCEPT ![t] = ListNodePtr(t)]
                          /\ cand' = [cand EXCEPT ![t] = Null]
                          /\ pc' = [pc EXCEPT ![t] = "pf_load"]
                          /\ UNCHANGED <<heap, casOrder>>
                     [] heap[r].type = "Leaf" ->      \* todo!()
                          /\ pc' = [pc EXCEPT ![t] = "panicked"]
                          /\ cand' = [cand EXCEPT ![t] = Null]
                          /\ new_node' = [new_node EXCEPT ![t] = Null]
                          /\ UNCHANGED <<heap, lnodes, casOrder>>
    /\ ret' = [ret EXCEPT ![t] = "none"]
    /\ UNCHANGED <<mainpc, entries, next_unused_node_id, boxed, active, log>>

\* MappingTable::insert: `entry.load(Acquire)` and Box::leak(Box::new(node))
MtLoad(t) ==
    /\ pc[t] = "mt_load"
    /\ IF ROOT_ID < MAPPING_TABLE_SIZE
       THEN /\ old' = [old EXCEPT ![t] = EntryAt(ROOT_ID)]
            /\ boxed' = boxed \cup {cand[t]}
            /\ pc' = [pc EXCEPT ![t] = "mt_cas"]
       ELSE /\ pc' = [pc EXCEPT ![t] = "assert_failed"]
            /\ UNCHANGED <<old, boxed>>
    /\ UNCHANGED <<mainpc, entries, next_unused_node_id, heap, lnodes, casOrder>>
    /\ UNCHANGED <<active, budget, op, key, value, prev, root, cand, mt_ret, new_node, head, it, ret, log>>
    /\ UNCHANGED <<snap, yielded, spurious, fails, len0>>

\* MappingTable::insert: the compare_exchange and its two arms; then
\* BwTree::insert drops the result and returns true
MtCas(t) ==
    /\ pc[t] = "mt_cas"
    /\ LET c == compare_exchange(EntryAt(ROOT_ID), old[t], cand[t]) IN
       /\ entries' = StoreEntry(entries, ROOT_ID, c.val)
       /\ boxed' = IF c.ok THEN boxed ELSE DropBoxFrom(boxed, c.val)
       /\ mt_ret' = [mt_ret EXCEPT ![t] = <<c.ok>>]
       /\ ret' = [ret EXCEPT ![t] = BwTreeInsertResult(c.ok)]
    /\ log' = [log EXCEPT ![t] = Append(@, <<key[t], value[t]>>)]
    /\ old' = [old EXCEPT ![t] = Null]
    /\ pc' = [pc EXCEPT ![t] = "idle"]
    /\ UNCHANGED <<mainpc, next_unused_node_id, heap, lnodes, casOrder>>
    /\ UNCHANGED <<active, budget, op, key, value, prev, root, cand, new_node, head, it>>
    /\ UNCHANGED <<snap, yielded, spurious, fails, len0>>

\* LinkedList::push_front on the chain of the Delta in `root`:
\* `self.head.load(Acquire)` and `(*new_node).next.store(head, Relaxed)`
PfLoad(t) ==
    /\ pc[t] = "pf_load"
    /\ LET h == HeadLoad(heap[root[t]].head, head[t]) IN
       /\ head' = [head EXCEPT ![t] = h]
       /\ lnodes' = StoreNext(lnodes, new_node[t], h)
    /\ pc' = [pc EXCEPT ![t] = "pf_cas"]
    /\ UNCHANGED <<mainpc, entries, next_unused_node_id, heap, boxed, casOrder>>
    /\ UNCHANGED <<active, budget, op, key, value, prev, root, cand, old, mt_ret, new_node, it, ret, log>>
    /\ UNCHANGED <<snap, yielded, spurious, fails, len0>>

\* LinkedList::push_front: compare_exchange_weak(head, new_node).  On success
\* push_front, DeltaNode::insert and BwTree::insert return; on failure, because
\* the head is another one or although it is unchanged (at most MaxSpurious
\* times in a call), the loop starts over.
PfCas(t) ==
    /\ pc[t] = "pf_cas"
    /\ LET c == compare_exchange(heap[root[t]].head, head[t], new_node[t]) IN
       \/ /\ c.ok
          /\ heap' = [heap EXCEPT ![root[t]].head = c.val]
          /\ casOrder' = Append(casOrder, <<root[t], new_node[t]>>)
          /\ ret' = [ret EXCEPT ![t] = BwTreeInsertResult(TRUE)]
          /\ log' = [log EXCEPT ![t] = Append(@, <<key[t], value[t]>>)]
          /\ head' = [head EXCEPT ![t] = Null]
          /\ pc' = [pc EXCEPT ![t] = "idle"]
          /\ spurious' = [spurious EXCEPT ![t] = 0]
          /\ fails' = [fails EXCEPT ![t] = 0]
          /\ len0' = [len0 EXCEPT ![t] = 0]
       \/ /\ ~c.ok
          /\ fails' = [fails EXCEPT ![t] = @ + 1]
          /\ pc' = [pc EXCEPT ![t] = "pf_load"]
          /\ UNCHANGED <<heap, casOrder, ret, log, head, spurious, len0>>
       \/ /\ c.ok
          /\ spurious[t] < MaxSpurious
          /\ spurious' = [spurious EXCEPT ![t] = @ + 1]
          /\ pc' = [pc EXCEPT ![t] = "pf_load"]
          /\ UNCHANGED <<heap, casOrder, ret, log, head, fails, len0>>
    /\ UNCHANGED <<mainpc, entries, next_unused_node_id, boxed, lnodes>>
    /\ UNCHANGED <<active, budget, op, key, value, prev, root, cand, old, mt_ret, new_node, it>>
    /\ UNCHANGED <<snap, yielded>>

\* A thread calls tree.get(k).
\* BwTree::get: `self.mapping_table.get(self.root_id)` and Node::get's match
Get(t) ==
    /\ mainpc = "run"
    /\ t \in active
    /\ pc[t] = "idle"
    /\ budget > 0
    /\ \E k \in AllKeys :
        /\ Enter(t, "get", k)
        /\ IF ~MappingTableGetOk(ROOT_ID)
           THEN /\ pc' = [pc EXCEPT ![t] = "assert_failed"]
                /\ root' = [root EXCEPT ![t] = Null]
                /\ ret' = [ret EXCEPT ![t] = "none"]
           ELSE LET r == EntryAt(ROOT_ID) IN
                /\ root' = [root EXCEPT ![t] = r]
                /\ CASE heap[r].type = "Inner" ->      \* todo!()
                          /\ pc' = [pc EXCEPT ![t] = "panicked"]
                          /\ ret' = [ret EXCEPT ![t] = "none"]
                     [] heap[r].type = "Delta" ->
                          /\ pc' = [pc EXCEPT ![t] = "iter"]
                          /\ ret' = [ret EXCEPT ![t] = "none"]
                     [] heap[r].type = "Leaf" ->
                          /\ ret' = [ret EXCEPT ![t] = LeafNodeGet(heap[r], k)]
                          /\ pc' = [pc EXCEPT ![t] = "idle"]
    /\ UNCHANGED <<shared, value, cand, new_node, active, log, len0>>

\* DeltaNode::get: `self.records.iter()`, the relaxed load of the head
IterStart(t) ==
    /\ pc[t] = "iter"
    /\ it' = [it EXCEPT ![t] = LinkedListIter(heap[root[t]].head)]
    /\ snap' = [snap EXCEPT ![t] = Chain(heap[root[t]].head)]
    /\ pc' = [pc EXCEPT ![t] = "iter_next"]
    /\ UNCHANGED shared
    /\ UNCHANGED <<active, budget, op, key, value, prev, root, cand, old, mt_ret, new_node, head, ret, log>>
    /\ UNCHANGED <<yielded, spurious, fails, len0>>

\* DeltaNode::get: one turn of the for loop, Iter::next and the match
IterNext(t) ==
    /\ pc[t] = "iter_next"
    /\ IF it[t] # Null
       THEN LET node == lnodes[it[t]] IN
            IF key[t] = node.value[1]
            THEN /\ pc' = [pc EXCEPT ![t] = "idle"]
                 /\ ret' = [ret EXCEPT ![t] = Some(node.value[2])]
                 /\ it' = [it EXCEPT ![t] = Null]
                 /\ snap' = [snap EXCEPT ![t] = <<>>]
                 /\ yielded' = [yielded EXCEPT ![t] = <<>>]
            ELSE /\ yielded' = [yielded EXCEPT ![t] = Append(@, it[t])]
                 /\ it' = [it EXCEPT ![t] = node.next]
                 /\ UNCHANGED <<ret, pc, snap>>
       ELSE /\ pc' = [pc EXCEPT ![t] = "idle"]
            /\ ret' = [ret EXCEPT ![t] = None]
            /\ snap' = [snap EXCEPT ![t] = <<>>]
            /\ yielded' = [yielded EXCEPT ![t] = <<>>]
            /\ UNCHANGED it
    /\ UNCHANGED shared
    /\ UNCHANGED <<active, budget, op, key, value, prev, root, cand, old, mt_ret, new_node, head, log>>
    /\ UNCHANGED <<spurious, fails, len0>>

Next ==
    \/ New
    \/ \E t \in Threads : Insert(t)
    \/ \E t \in Threads : Get(t)
    \/ \E t \in Threads : MtLoad(t)
    \/ \E t \in Threads : MtCas(t)
    \/ \E t \in Threads : PfLoad(t)
    \/ \E t \in Threads : PfCas(t)
    \/ \E t \in Threads : IterStart(t)
    \/ \E t \in Threads : IterNext(t)

Spec == Init /\ [][Next]_vars

SeqSpec == InitSeq /\ [][Next]_vars

\* the steps of thread t inside a call
Step(t) ==
    \/ MtLoad(t)
    \/ MtCas(t)
    \/ PfLoad(t)
    \/ PfCas(t)
    \/ IterStart(t)
    \/ IterNext(t)

\* every spawned thread keeps being scheduled (every step of a thread changes
\* its position or its iterator)
FairSpec == Init /\ [][Next]_vars /\ \A t \in Threads : WF_<<pc, it>>(Step(t))

TypeOK ==
    /\ mainpc \in {"new", "run"}
    /\ \A t \in Threads : pc[t] \in {"idle", "mt_load", "mt_cas", "pf_load", "pf_cas",
                                     "iter", "iter_next", "panicked", "assert_failed"}

\* ------------------------------------------------------------------------
\* Vocabulary of the properties
\* ------------------------------------------------------------------------
Reverse(q) == [i \in 1..Len(q) |-> q[Len(q) + 1 - i]]

Range(f) == {f[x] : x \in DOMAIN f}

KeysIn(l) == {l[i][1] : i \in 1..Len(l)}

DistinctKeys(l) == \A i, j \in 1..Len(l) : l[i][1] = l[j][1] => i = j

\* the value of the last insert of k in l
LastValue(l, k) ==
    LET i == CHOOSE j \in 1..Len(l) :
                 l[j][1] = k /\ \A m \in (j + 1)..Len(l) : l[m][1] # k
    IN l[i][2]

InsertRunning(t) == op[t] = "insert" /\ pc[t] \notin {"idle", "panicked", "assert_failed"}

InsertReturned(t) == op[t] = "insert" /\ pc[t] = "idle"

GetReturned(t) == op[t] = "get" /\ pc[t] = "idle"

\* no insert call has begun with key k
NeverInserted(k) ==
    \A u \in Threads : k \notin KeysIn(log[u]) /\ ~(op[u] = "insert" /\ key[u] = k)

\* every completed insert, of every thread
AllInserts == UNION {{<<u, i>> : i \in 1..Len(log[u])} : u \in Threads}

\* the nodes whose head CAS on list d succeeded, in the order of the CASes
RECURSIVE CasOn(_, _)
CasOn(q, d) ==
    IF q = <<>> THEN <<>>
    ELSE IF Head(q)[1] = d THEN <<Head(q)[2]>> \o CasOn(Tail(q), d)
    ELSE CasOn(Tail(q), d)

\* the list a returned BwTree::insert pushed to
ListOf(t) == IF cand[t] # Null THEN cand[t] ELSE root[t]

\* ------------------------------------------------------------------------
\* Properties
\* ------------------------------------------------------------------------

\* C1: a get(k) that a thread issues immediately after its own insert(k, v)
\* has returned yields v, in every interleaving with the other threads'
\* inserts of other keys.
C1_ReadYourWrites ==
    \A t \in Threads :
        (GetReturned(t) /\ prev[t] # <<>> /\ prev[t][1] = key[t])
            => ret[t] = Some(prev[t][2])

\* C2: once every insert call has returned, and the inserted keys are
\* pairwise distinct, get(k) returns the inserted value for every inserted k.
C2_NoLostInserts ==
    ((\A t \in Threads : ~InsertRunning(t))
       /\ (\A a, b \in AllInserts : log[a[1]][a[2]][1] = log[b[1]][b[2]][1] => a = b))
    => \A a \in AllInserts :
          /\ ~GetPanics
          /\ GetNow(log[a[1]][a[2]][1]) = Some(log[a[1]][a[2]][2])

\* C3: single thread, inserts with distinct keys: a later get(k) of an
\* inserted key returns the value inserted for k (for the get calls the thread
\* makes, and for a get of every inserted key whenever it is between calls).
C3_RoundTrip ==
    \A t \in Threads :
        DistinctKeys(log[t]) =>
            /\ (GetReturned(t) /\ key[t] \in KeysIn(log[t]))
                   => ret[t] = Some(LastValue(log[t], key[t]))
            /\ (pc[t] = "idle" /\ log[t] # <<>>)
                   => /\ ~GetPanics
                      /\ \A i \in 1..Len(log[t]) : GetNow(log[t][i][1]) = Some(log[t][i][2])

C3_Witness ==
    \E t \in Threads :
        /\ GetReturned(t)
        /\ Len(log[t]) >= 2
        /\ DistinctKeys(log[t])
        /\ key[t] = log[t][1][1]
        /\ ret[t] = Some(log[t][1][2])

\* C4: single thread: after insert(k, v1) and then insert(k, v2) have
\* completed, a later get(k) returns the value of the most recent insert of k,
\* and never an older one.
C4_OverwritePrecedence ==
    \A t \in Threads :
        (GetReturned(t) /\ \E i, j \in 1..Len(log[t]) :
                              i < j /\ log[t][i][1] = key[t] /\ log[t][j][1] = key[t])
            => ret[t] = Some(LastValue(log[t], key[t]))

C4_Witness ==
    \E t \in Threads :
        /\ GetReturned(t)
        /\ \E i, j \in 1..Len(log[t]) :
              /\ i < j
              /\ log[t][i][1] = key[t]
              /\ log[t][j][1] = key[t]
              /\ log[t][i][2] # log[t][j][2]
              /\ \A m \in (j + 1)..Len(log[t]) : log[t][m][1] # key[t]
              /\ ret[t] = Some(log[t][j][2])

\* the thread-local state of t; it changes in every step t takes
LocalsOf(t) ==
    <<pc[t], op[t], key[t], value[t], prev[t], root[t], cand[t], old[t],
      mt_ret[t], new_node[t], head[t], it[t], ret[t], log[t],
      snap[t], yielded[t], spurious[t], fails[t], len0[t]>>

\* C5: no step of an insert(k1, v) changes the result of get(k2), for any
\* previously inserted k2 # k1, also when the insert promotes the root or
\* races with other inserts.
C5_NonInterference ==
    [][\A t \in Threads : \A k2 \in AllKeys :
          (/\ LocalsOf(t)' # LocalsOf(t)
           /\ op'[t] = "insert"
           /\ key'[t] # k2
           /\ \E u \in Threads : k2 \in KeysIn(log[u])
           /\ ~GetPanics)
          => (~GetPanics' /\ GetNow(k2)' = GetNow(k2))]_vars

\* C6: a get(k) of a key that was never inserted completes and returns None,
\* in every state reachable from construction, the fresh tree included.
C6_Absence ==
    \A t \in Threads :
        (op[t] = "get" /\ NeverInserted(key[t]))
            => /\ pc[t] \notin {"panicked", "assert_failed"}
               /\ pc[t] = "idle" => ret[t] = None

C8_Bootstrap ==
    (mainpc = "run" /\ \A t \in Threads : op[t] = "none") =>
        /\ next_unused_node_id = 3
        /\ DOMAIN entries = {1, 2}
        /\ entries[1] # Null /\ entries[2] # Null /\ entries[1] # entries[2]
        /\ heap[entries[1]] = [type |-> "Inner", keys |-> <<MINIMUM>>, children |-> <<2>>]
        /\ heap[entries[2]].type = "Leaf"
        /\ heap[entries[2]].count = 0

C8_Witness ==
    /\ mainpc = "run"
    /\ \A t \in Threads : op[t] = "none" /\ pc[t] = "idle"
    /\ EntryAt(ROOT_ID) # Null

\* C9: push_front loses no prepend: every list holds exactly the nodes whose
\* head CAS on it succeeded, each once, head to tail in reverse order of those
\* CASes; the node of a push_front that has returned is reachable from the
\* head of its list and carries the pushed value.
C9_PushFrontLinearizable ==
    /\ \A d \in DOMAIN heap :
          heap[d].type = "Delta" => Chain(heap[d].head) = Reverse(CasOn(casOrder, d))
    /\ \A i, j \in 1..Len(casOrder) : casOrder[i][2] = casOrder[j][2] => i = j
    /\ \A t \in Threads :
          InsertReturned(t) =>
              /\ new_node[t] \in Range(Chain(heap[ListOf(t)].head))
              /\ lnodes[new_node[t]].value = <<key[t], value[t]>>

\* two calls on one list overlapped: u's push_front has returned, its head
\* CAS came between t's load of the head and t's CAS
C9_Witness ==
    \E t, u \in Threads :
        /\ t # u
        /\ InsertReturned(u) /\ cand[u] = Null
        /\ pc[t] = "pf_cas"
        /\ root[t] = root[u]
        /\ head[t] # heap[root[t]].head
        /\ heap[root[t]].head = new_node[u]
        /\ lnodes[new_node[u]].next = head[t]
        /\ Len(Chain(heap[root[t]].head)) >= 2

\* C10: when MappingTable::insert returns false, its candidate is installed in
\* no slot, referenced by no one and no longer allocated, and the node in the
\* slot stays installed.
C10_LoserDiscarded ==
    \A t \in Threads :
        mt_ret[t] = <<FALSE>> =>
            /\ cand[t] \notin Range(entries)
            /\ \A u \in Threads : root[u] # cand[t]
            /\ cand[t] \notin boxed
            /\ EntryAt(ROOT_ID) # Null

\* C11: the root is promoted exactly once: after bootstrap the pointer in the
\* root slot is replaced only while it still is the Inner node, so that of the
\* racing inserts that saw Inner one mapping-table CAS succeeds and an
\* installed Delta is never replaced by another Delta.
C11_PromotedOnce ==
    [][(mainpc = "run" /\ EntryAt(ROOT_ID)' # EntryAt(ROOT_ID))
          => heap[EntryAt(ROOT_ID)].type = "Inner"]_vars

\* C12: the mapping-table CAS of a BwTree::insert that read the root slot and
\* saw the Inner node N succeeds only if the slot still holds N; if the slot
\* was changed after that read the CAS fails and leaves the slot as it is.
C12_CasOnObserved ==
    [][\A t \in Threads :
          (pc[t] = "mt_cas" /\ pc'[t] = "idle" /\ EntryAt(ROOT_ID) # root[t])
             => (mt_ret'[t] = <<FALSE>> /\ entries' = entries)]_vars

\* C13: no step of a BwTree::insert that saw the root as Delta makes a
\* mapping-table CAS or changes a mapping-table slot, the id allocator or the
\* set of leaked mapping-table nodes; the step that returns prepends the
\* call's one record to the chain of that Delta, and no other step of the call
\* changes any chain.
C13_DeltaInsertFrame ==
    [][\A t \in Threads :
          (/\ LocalsOf(t)' # LocalsOf(t)
           /\ op'[t] = "insert"
           /\ root'[t] # Null
           /\ heap[root'[t]].type = "Delta")
          => /\ entries' = entries
             /\ next_unused_node_id' = next_unused_node_id
             /\ boxed' = boxed
             /\ mt_ret'[t] = <<>>
             /\ pc'[t] \in {"pf_load", "pf_cas", "idle"}
             /\ DOMAIN heap' = DOMAIN heap
             /\ \A d \in DOMAIN heap :
                   heap[d].type = "Delta" =>
                      Chain(heap[d].head)' =
                         IF d = root'[t] /\ pc'[t] = "idle"
                         THEN <<new_node[t]>> \o Chain(heap[d].head)
                         ELSE Chain(heap[d].head)]_vars

C13_Witness ==
    \E t \in Threads :
        /\ InsertReturned(t)
        /\ cand[t] = Null
        /\ mt_ret[t] = <<>>
        /\ root[t] = EntryAt(ROOT_ID)
        /\ heap[root[t]].type = "Delta"
        /\ Len(Chain(heap[root[t]].head)) >= 2
        /\ Head(Chain(heap[root[t]].head)) = new_node[t]

\* q is the first Len(q) elements of r
IsPrefix(q, r) == Len(q) <= Len(r) /\ \A i \in 1..Len(q) : q[i] = r[i]

\* q is the last Len(q) elements of r
IsSuffix(q, r) ==
    Len(q) <= Len(r) /\ \A i \in 1..Len(q) : q[i] = r[Len(r) - Len(q) + i]

\* C14: an iteration yields the nodes that were in the list when iter()
\* loaded the head, from head to tail and each once, and then ends: at every
\* point of the iteration the nodes yielded so far followed by the nodes still
\* reachable from the iterator are that snapshot, whatever push_front calls
\* complete in the meantime.  (DeltaNode::get stops the iteration at the
\* first match.)
C14_IterSnapshot ==
    \A t \in Threads :
        pc[t] = "iter_next" =>
           /\ yielded[t] \o Chain(it[t]) = snap[t]
           /\ \A i, j \in 1..Len(snap[t]) : snap[t][i] = snap[t][j] => i = j
           /\ \A i \in 1..Len(yielded[t]) : lnodes[yielded[t][i]].value[1] # key[t]

\* an iteration has reached the end of its snapshot while a push_front on the
\* same list completed after the load of the head
C14_Witness ==
    \E t \in Threads :
        /\ pc[t] = "iter_next"
        /\ it[t] = Null
        /\ Len(snap[t]) >= 1
        /\ yielded[t] = snap[t]
        /\ Len(Chain(heap[root[t]].head)) > Len(snap[t])

\* C15: every list is prepend-only: in every step the head-to-tail sequence
\* of each list keeps its former sequence as a suffix, and no node that was
\* reachable from a head changes its value or its successor link.
C15_PrependOnly ==
    [][\A d \in DOMAIN heap :
          heap[d].type = "Delta" =>
             /\ IsSuffix(Chain(heap[d].head), Chain(heap[d].head)')
             /\ \A n \in Range(Chain(heap[d].head)) : lnodes'[n] = lnodes[n]]_vars

\* a list that took the record of its promotion and two push_front calls
C15_Witness ==
    \E d \in DOMAIN heap :
        /\ heap[d].type = "Delta"
        /\ Len(Chain(heap[d].head)) >= 3
        /\ Len(CasOn(casOrder, d)) >= 3

\* thread t is inside a call
Running(t) == pc[t] \in {"mt_load", "mt_cas", "pf_load", "pf_cas", "iter", "iter_next"}

\* thread t is inside push_front on the chain of an installed Delta
InPush(t) == pc[t] \in {"pf_load", "pf_cas"}

\* the head CASes on the list of t's push_front that succeeded since the call began
SuccessesSince(t) == Len(Chain(heap[root[t]].head)) - len0[t]

\* the push_front calls on that list that overlapped t's call so far: t's own,
\* those that succeeded since it began and those in progress
Concurrent(t) ==
    1 + SuccessesSince(t)
      + Cardinality({u \in Threads \ {t} : InPush(u) /\ root[u] = root[t]})

\* the head CASes t's push_front call has begun
Attempts(t) == fails[t] + spurious[t] + (IF pc[t] = "pf_cas" THEN 1 ELSE 0)

\* a head CAS that finds another head finds one that a push_front of another
\* call installed after this call's load; no thread inside a call waits
C16_CauseAndNoWait ==
    \A t \in Threads :
        /\ (pc[t] = "pf_cas" /\ heap[root[t]].head # head[t]) =>
              /\ IsSuffix(Chain(head[t]), Chain(heap[root[t]].head))
              /\ Len(Chain(head[t])) < Len(Chain(heap[root[t]].head))
              /\ heap[root[t]].head # new_node[t]
        /\ Running(t) => ENABLED Step(t)

\* no thread stays inside a call for ever
C16_Returns == \A t \in Threads : []<>(~Running(t))

\* C16 as stated: a head CAS fails, other than spuriously, only if another
\* push_front's CAS on the list succeeded since the call read the head; a
\* push_front call among N concurrent ones makes at most N attempts; under
\* fair scheduling every call returns; no step waits for another thread.
C16_LockFreeAtMostN ==
    /\ [](C16_CauseAndNoWait
            /\ \A t \in Threads : InPush(t) => Attempts(t) <= Concurrent(t))
    /\ C16_Returns

\* C16, amended: as stated, with the attempts that did not fail spuriously
\* bounded by N (every failure that is not spurious is paid for by one
\* successful CAS of another call), and every call returning under fair
\* scheduling when compare_exchange_weak fails spuriously finitely often.
C16_LockFree ==
    /\ [](C16_CauseAndNoWait
            /\ \A t \in Threads :
                  InPush(t) => /\ fails[t] <= SuccessesSince(t)
                               /\ fails[t] + 1 <= Concurrent(t))
    /\ C16_Returns

\* a push_front is about to succeed after one spurious failure and one
\* failure against the CAS of another call
C16_Witness ==
    \E t \in Threads :
        /\ pc[t] = "pf_cas"
        /\ head[t] = heap[root[t]].head
        /\ fails[t] >= 1
        /\ spurious[t] >= 1

\* C17: nothing is ever freed: every mapping-table node that a slot holds,
\* that a thread got from MappingTable::get or loaded in MappingTable::insert,
\* or that a thread leaked as its candidate (also when its CAS lost) is
\* allocated, as is every list node a thread or a chain refers to; and no
\* step, in particular neither arm of the mapping-table CAS, deallocates a
\* mapping-table node or a list node, the displaced node included.
C17_NeverFreed ==
    /\ [](/\ Range(entries) \subseteq boxed
          /\ \A t \in Threads :
                /\ root[t] # Null => root[t] \in boxed
                /\ old[t] # Null => old[t] \in boxed
                /\ (pc[t] = "mt_cas" \/ mt_ret[t] # <<>>) => cand[t] \in boxed
                /\ {new_node[t], head[t], it[t]} \ {Null} \subseteq DOMAIN lnodes
          /\ \A d \in DOMAIN heap :
                heap[d].type = "Delta" => Range(Chain(heap[d].head)) \subseteq DOMAIN lnodes)
    /\ [][/\ boxed \subseteq boxed'
          /\ DOMAIN heap \subseteq DOMAIN heap'
          /\ DOMAIN lnodes \subseteq DOMAIN lnodes']_vars

\* a mapping-table CAS lost while another thread was inside a call on the
\* node it got from MappingTable::get, and the displaced Inner node is in no slot
C17_Witness ==
    \E t, u \in Threads :
        /\ t # u
        /\ mt_ret[t] = <<FALSE>>
        /\ Running(u)
        /\ root[u] = EntryAt(ROOT_ID)
        /\ root[u] # root[t]
        /\ root[t] \notin Range(entries)
        /\ {root[t], root[u], cand[t]} \subseteq boxed

\* C18: a slot that holds a node holds a node ever after, and no assertion of
\* the mapping table fires in a call of the public API: whenever the tree is
\* constructed the id the driver passes (root_id) is below the capacity and its
\* slot is non-null, and no thread is stopped by an assertion.
C18_SlotsStayInstalled ==
    /\ [](/\ \A t \in Threads : pc[t] # "assert_failed"
          /\ mainpc = "run" =>
                /\ ROOT_ID < MAPPING_TABLE_SIZE
                /\ MappingTableGetOk(ROOT_ID)
                /\ MappingTableGetOk(FIRST_LEAF_NODE_ID))
    /\ [][\A id \in DOMAIN entries : EntryAt(id) # Null => EntryAt(id)' # Null]_vars

\* calls of get and insert went through the table after the root slot was
\* replaced
C18_Witness ==
    /\ mainpc = "run"
    /\ heap[EntryAt(ROOT_ID)].type = "Delta"
    /\ \E t, u \in Threads :
          /\ GetReturned(t)
          /\ InsertReturned(u)
          /\ mt_ret[u] # <<>>
    /\ \A t \in Threads : pc[t] # "assert_failed"

\* C19: the root slot holds an Inner or a Delta node and never a Leaf; once
\* it holds a Delta it holds a Delta ever after; once any BwTree::insert has
\* returned it holds a Delta, so that only a get that starts before any insert
\* has returned reaches the unimplemented Inner lookup and no insert reaches
\* the unimplemented Leaf arm; the slot of the first leaf (id 2) holds the
\* empty Leaf of the bootstrap in every state.
C19_RootMonotone ==
    /\ [](mainpc = "run" =>
            /\ EntryAt(ROOT_ID) # Null
            /\ heap[EntryAt(ROOT_ID)].type \in {"Inner", "Delta"}
            /\ (\E t \in Threads : log[t] # <<>>) => heap[EntryAt(ROOT_ID)].type = "Delta"
            /\ EntryAt(FIRST_LEAF_NODE_ID) # Null
            /\ heap[EntryAt(FIRST_LEAF_NODE_ID)] = LeafNodeNew
            /\ \A t \in Threads : pc[t] = "panicked" => op[t] = "get")
    /\ [][mainpc = "run" =>
            /\ heap[EntryAt(ROOT_ID)].type = "Delta" => heap'[EntryAt(ROOT_ID)'].type = "Delta"
            /\ EntryAt(FIRST_LEAF_NODE_ID)' = EntryAt(FIRST_LEAF_NODE_ID)
            /\ \A t \in Threads :
                  (pc[t] # "panicked" /\ pc'[t] = "panicked")
                     => \A u \in Threads : log[u] = <<>>]_vars

\* a get went down the Delta path after an insert had returned, and another
\* insert found the Delta
C19_Witness ==
    /\ mainpc = "run"
    /\ heap[EntryAt(ROOT_ID)].type = "Delta"
    /\ \E t, u \in Threads :
          /\ GetReturned(t)
          /\ heap[root[t]].type = "Delta"
          /\ log[u] # <<>>
          /\ InsertReturned(u)
          /\ cand[u] = Null
          /\ heap[root[u]].type = "Delta"

\* C20: a Delta is populated before it is published: the Delta in the root
\* slot, and every candidate handed to MappingTable::insert, has a non-empty
\* chain whose oldest record is the one pushed first, by the call that built
\* and installed the Delta (a call's Delta and its list node are allocated
\* together: DeltaPtr, ListNodePtr), with that call's key and value.
C20_PublishedPopulated ==
    \A d \in DOMAIN heap :
        (heap[d].type = "Delta"
           /\ (d = EntryAt(ROOT_ID) \/ \E t \in Threads : cand[t] = d /\ pc[t] \in {"mt_load", "mt_cas"}))
        => LET chain == Chain(heap[d].head)
               oldest == chain[Len(chain)]
           IN /\ chain # <<>>
              /\ oldest = CasOn(casOrder, d)[1]
              /\ oldest = d - FIRST_LEAF_NODE_ID
              /\ \A t \in Threads :
                    (cand[t] = d /\ op[t] = "insert")
                                => /\ new_node[t] = oldest
                                   /\ lnodes[oldest].value = <<key[t], value[t]>>

\* the installed Delta took later records on top of the record of the call
\* that installed it
C20_Witness ==
    \E t \in Threads :
        /\ InsertReturned(t)
        /\ mt_ret[t] = <<TRUE>>
        /\ cand[t] = EntryAt(ROOT_ID)
        /\ Len(Chain(heap[cand[t]].head)) >= 2
        /\ lnodes[Chain(heap[cand[t]].head)[Len(Chain(heap[cand[t]].head))]].value = <<key[t], value[t]>>

====
